---- MODULE Spec2Model ----
(***************************************************************************)
(* Model of run.py: the single-run orchestrator that discovers the AMIs in *)
(* use, launches one instance per AMI, starts an Inspector assessment run, *)
(* polls it, lists the High findings, publishes their count and tears the  *)
(* instances down.  The AWS services are the environment: every external   *)
(* call either returns a response drawn from a small set or raises.        *)
(***************************************************************************)
EXTENDS Integers, Sequences, FiniteSets, TLC

\* ------------------------------------------------------------------ bounds
\* instances reported by describe_instances
MaxRunning == 3
\* assessment-run records in one describe_assessment_runs response
MaxRuns == 2
\* pages the listing service delivers before it must stop
MaxPages == 3
\* finding ARNs on one page of the model's listing service
MaxPageLen == 2
\* length of the list handed to retrieve_findings
MaxFindings == 250

\* ------------------------------------------------- values of the environment
Images == {"ami-1", "ami-2"}
Today == "today"
Days == {Today, "yesterday"}
RunStates == {"COLLECTING_DATA", "COMPLETED", "COMPLETED_WITH_ERRORS"}
RunArn == "arn:run"
\* Python's None (an absent 'nextToken' key) and the empty string; a real
\* continuation token is a positive number, opaque to the program
NoneToken == -1
EmptyToken == 0

SeqsUpTo(S, n) == UNION {[1..k -> S] : k \in 0..n}

\* ------------------------------------------------------------- program constants
max_total_wait == 7260
sleep_time == 60
maxResults == 500
batch_size == 100
batch_span == 99
\* line 167: the status of sys.exit when no image is found
NoImagesExitCode == 1
finding_filter == [severities |-> <<"High">>]

VARIABLES
    pc,              \* position of the process
    exc,             \* an exception is propagating
    exitCode,        \* process exit code, -1 while running
    visited,         \* history: the positions reached so far
    amis,            \* __main__: amis
    instances,       \* start_ec2_intances: instances (the launch responses)
    instance_ids,    \* __main__: instance_ids
    assessment_run_arn,
    total_wait,      \* await_inspector_results: total_wait
    awaitResult,     \* what await_inspector_results returned: "none", "True", "False"
    next_token,      \* retrieve_finding_arns: next_token
    finding_arns,    \* retrieve_finding_arns / __main__: finding_arns
    created,         \* EC2: instance ids created so far, in creation order
    pages,           \* Inspector: the pages of the listing delivered so far
    runCalls,        \* history: run_instances requests
    waitCalls,       \* history: waiter.wait requests
    startCalls,      \* history: start_assessment_run requests
    pollCount,       \* history: number of describe_assessment_runs requests
    slept,           \* history: total time slept
    firstTerminal,   \* history: first poll answered with a matching terminal record
    emptyPoll,       \* history: the last state query found no record of the given day
    fatalLogs,       \* history: "No assessment runs found!" log lines
    listCalls,       \* history: list_findings requests
    publishCalls,    \* history: sns.publish requests
    terminateCalls,  \* history: terminate_instances requests
    lastCall,        \* history: the latest external call and whether it returned
    onlyStaleDone,   \* history: every state query so far was answered with records,
                     \* all of another day and all in a terminal state
    f_arns,          \* retrieve_findings: finding_arns (its argument)
    f_index,         \* retrieve_findings: index
    findings,        \* retrieve_findings: findings
    describeCalls,   \* history: describe_findings requests
    fpc              \* position inside retrieve_findings

mainVars == <<pc, exc, exitCode, visited, amis, instances, instance_ids,
              assessment_run_arn, total_wait, awaitResult, next_token,
              finding_arns, created, pages, runCalls, waitCalls, startCalls,
              pollCount, slept, firstTerminal, emptyPoll, fatalLogs,
              listCalls, publishCalls, terminateCalls, lastCall, onlyStaleDone>>
findVars == <<f_arns, f_index, findings, describeCalls, fpc>>
vars == <<mainVars, findVars>>

\* ------------------------------------------------------------------ helpers
RECURSIVE Flatten(_)
Flatten(ss) == IF ss = <<>> THEN <<>> ELSE Head(ss) \o Flatten(Tail(ss))

InSeq(x, s) == \E i \in 1..Len(s) : s[i] = x

\* fetch_amis: first-seen order, no duplicates
RECURSIVE Dedup(_, _)
Dedup(ids, acc) ==
    IF ids = <<>> THEN acc
    ELSE Dedup(Tail(ids), IF InSeq(Head(ids), acc) THEN acc ELSE Append(acc, Head(ids)))

fetch_amis(imageIds) == Dedup(imageIds, <<>>)

\* Python truthiness of a token / of a list
TruthyToken_EmptyCounts(t) == t # NoneToken
TruthyToken(t) == t # NoneToken /\ t # EmptyToken
TruthyList(l) == l # <<>>

\* Python's s[a:b] for 0 <= a, 0 <= b (0-based, end excluded, clamped)
Min(a, b) == IF a < b THEN a ELSE b
Slice(s, a, b) == SubSeq(s, Min(a, Len(s)) + 1, Min(b, Len(s)))

\* math.ceil(a / b) for the non-negative a and positive b of the program
Ceil(a, b) == IF a % b = 0 THEN a \div b ELSE (a \div b) + 1

Range1(n) == [i \in 1..n |-> i]

\* where control goes when an exception is raised inside the try block
TryRaiseTarget_NoFinally == "done"
TryRaiseTarget == "finally"

\* ------------------------------------------------------------------ initial state
InitCommon ==
    /\ exc = FALSE
    /\ exitCode = -1
    /\ amis = <<>>
    /\ instances = <<>>
    /\ instance_ids = <<>>
    /\ assessment_run_arn = ""
    /\ total_wait = 0
    /\ awaitResult = "none"
    /\ next_token = EmptyToken
    /\ finding_arns = <<>>
    /\ created = <<>>
    /\ pages = <<>>
    /\ runCalls = <<>>
    /\ waitCalls = <<>>
    /\ startCalls = 0
    /\ pollCount = 0
    /\ slept = 0
    /\ firstTerminal = [at |-> 0, state |-> "none"]
    /\ emptyPoll = FALSE
    /\ fatalLogs = 0
    /\ listCalls = <<>>
    /\ publishCalls = <<>>
    /\ terminateCalls = <<>>
    /\ lastCall = [kind |-> "none", ok |-> TRUE]
    /\ onlyStaleDone = TRUE
    /\ findings = <<>>
    /\ f_index = 0
    /\ describeCalls = <<>>

Init ==
    /\ InitCommon
    /\ pc = "fetch"
    /\ visited = {"fetch"}
    /\ f_arns = <<>>
    /\ fpc = "idle"

\* control moves to position p
Goto(p) == pc' = p /\ visited' = visited \cup {p}

\* an exception leaves the program before the try block: the interpreter
\* prints the traceback and exits with status 1
Uncaught == Goto("done") /\ exc' = TRUE /\ exitCode' = 1

\* an exception raised inside the try block (lines 189-222)
RaiseInTry_Swallowed ==
    /\ Goto(IF pc = "wait" THEN "start_scan"
            ELSE IF pc = "start_scan" THEN "poll" ELSE "finally")
    /\ exc' = exc
    /\ exitCode' = exitCode
RaiseInTry ==
    /\ Goto(TryRaiseTarget)
    /\ exc' = TRUE
    /\ exitCode' = IF TryRaiseTarget = "done" THEN 1 ELSE exitCode

\* ------------------------------------------------------------------ discovery
\* line 165
NoAmis_Never(found) == FALSE
NoAmis(found) == ~TruthyList(found)

\* lines 162-167: fetch_amis returned; an empty list ends the run with sys.exit(1)
FetchAmis ==
    /\ pc = "fetch"
    /\ lastCall' = [kind |-> "describe_instances", ok |-> TRUE]
    /\ \E imageIds \in SeqsUpTo(Images, MaxRunning) :
         /\ amis' = fetch_amis(imageIds)
         /\ IF NoAmis(fetch_amis(imageIds))
              THEN Goto("done") /\ exitCode' = NoImagesExitCode
              ELSE Goto("launch") /\ exitCode' = exitCode
    /\ UNCHANGED <<exc, instances, instance_ids, assessment_run_arn, total_wait,
                   awaitResult, next_token, finding_arns, created, pages, runCalls,
                   waitCalls, startCalls, pollCount, slept, firstTerminal, emptyPoll,
                   fatalLogs, listCalls, publishCalls, terminateCalls, findVars,
                   onlyStaleDone>>

\* describe_instances raised (line 23): nothing catches it
FetchAmisRaises ==
    /\ pc = "fetch"
    /\ lastCall' = [kind |-> "describe_instances", ok |-> FALSE]
    /\ Uncaught
    /\ UNCHANGED <<amis, instances, instance_ids, assessment_run_arn, total_wait,
                   awaitResult, next_token, finding_arns, created, pages, runCalls,
                   waitCalls, startCalls, pollCount, slept, firstTerminal, emptyPoll,
                   fatalLogs, listCalls, publishCalls, terminateCalls, findVars,
                   onlyStaleDone>>

\* ------------------------------------------------------------------ provisioning
\* the run_instances request of lines 38-49 (the fixed parameters left out)
RunInstancesRequest_TwoPerCall(ami) == [ImageId |-> ami, MinCount |-> 1, MaxCount |-> 2]
RunInstancesRequest(ami) == [ImageId |-> ami, MinCount |-> 1, MaxCount |-> 1]

\* EC2 answers a run_instances request with MinCount..MaxCount fresh instances
LaunchResponse(n, count) ==
    [Instances |-> [i \in 1..count |-> [InstanceId |-> n + i]]]

\* lines 51-52: the flattening list comprehension
InstanceIdsOf(resps) ==
    Flatten([i \in 1..Len(resps) |->
               [j \in 1..Len(resps[i].Instances) |-> resps[i].Instances[j].InstanceId]])

\* one iteration of the loop of lines 37-50, the launch accepted
LaunchInstance ==
    /\ pc = "launch"
    /\ lastCall' = [kind |-> "run_instances", ok |-> TRUE]
    /\ Len(instances) < Len(amis)
    /\ LET req == RunInstancesRequest(amis[Len(instances) + 1]) IN
         /\ runCalls' = Append(runCalls, req)
         /\ \E count \in req.MinCount..req.MaxCount :
              LET resp == LaunchResponse(Len(created), count) IN
                /\ instances' = Append(instances, resp)
                /\ created' = created \o [i \in 1..count |-> Len(created) + i]
    /\ UNCHANGED <<pc, visited, exc, exitCode, amis, instance_ids, assessment_run_arn,
                   total_wait, awaitResult, next_token, finding_arns, pages,
                   waitCalls, startCalls, pollCount, slept, firstTerminal, emptyPoll,
                   fatalLogs, listCalls, publishCalls, terminateCalls, findVars,
                   onlyStaleDone>>

\* one iteration of the loop, the launch rejected: the exception leaves
\* start_ec2_intances and __main__ (line 186 is before the try of line 189)
LaunchRaises ==
    /\ pc = "launch"
    /\ lastCall' = [kind |-> "run_instances", ok |-> FALSE]
    /\ Len(instances) < Len(amis)
    /\ runCalls' = Append(runCalls, RunInstancesRequest(amis[Len(instances) + 1]))
    /\ Uncaught
    /\ UNCHANGED <<amis, instances, instance_ids, assessment_run_arn, total_wait,
                   awaitResult, next_token, finding_arns, created, pages,
                   waitCalls, startCalls, pollCount, slept, firstTerminal, emptyPoll,
                   fatalLogs, listCalls, publishCalls, terminateCalls, findVars,
                   onlyStaleDone>>

\* lines 51-55 and 186-189: the loop is over, the ids are returned, the try is entered
LaunchReturn ==
    /\ pc = "launch"
    /\ Len(instances) = Len(amis)
    /\ instance_ids' = InstanceIdsOf(instances)
    /\ Goto("wait")
    /\ UNCHANGED <<exc, exitCode, amis, instances, assessment_run_arn, total_wait,
                   awaitResult, next_token, finding_arns, created, pages, runCalls,
                   waitCalls, startCalls, pollCount, slept, firstTerminal, emptyPoll,
                   fatalLogs, listCalls, publishCalls, terminateCalls, findVars,
                   lastCall, onlyStaleDone>>

\* ------------------------------------------------------------------ readiness wait
\* lines 191-194
WaitReady ==
    /\ pc = "wait"
    /\ lastCall' = [kind |-> "wait", ok |-> TRUE]
    /\ waitCalls' = Append(waitCalls, instance_ids)
    /\ Goto("start_scan")
    /\ UNCHANGED <<exc, exitCode, amis, instances, instance_ids, assessment_run_arn,
                   total_wait, awaitResult, next_token, finding_arns, created, pages,
                   runCalls, startCalls, pollCount, slept, firstTerminal, emptyPoll,
                   fatalLogs, listCalls, publishCalls, terminateCalls, findVars,
                   onlyStaleDone>>

WaitReadyRaises ==
    /\ pc = "wait"
    /\ lastCall' = [kind |-> "wait", ok |-> FALSE]
    /\ waitCalls' = Append(waitCalls, instance_ids)
    /\ RaiseInTry
    /\ UNCHANGED <<amis, instances, instance_ids, assessment_run_arn,
                   total_wait, awaitResult, next_token, finding_arns, created, pages,
                   runCalls, startCalls, pollCount, slept, firstTerminal, emptyPoll,
                   fatalLogs, listCalls, publishCalls, terminateCalls, findVars,
                   onlyStaleDone>>

\* ------------------------------------------------------------------ scan start
\* lines 62-67 and 197-198
StartScan ==
    /\ pc = "start_scan"
    /\ lastCall' = [kind |-> "start_assessment_run", ok |-> TRUE]
    /\ startCalls' = startCalls + 1
    /\ assessment_run_arn' = RunArn
    /\ Goto("poll")
    /\ UNCHANGED <<exc, exitCode, amis, instances, instance_ids,
                   total_wait, awaitResult, next_token, finding_arns, created, pages,
                   runCalls, waitCalls, pollCount, slept, firstTerminal, emptyPoll,
                   fatalLogs, listCalls, publishCalls, terminateCalls, findVars,
                   onlyStaleDone>>

StartScanRaises ==
    /\ pc = "start_scan"
    /\ lastCall' = [kind |-> "start_assessment_run", ok |-> FALSE]
    /\ startCalls' = startCalls + 1
    /\ RaiseInTry
    /\ UNCHANGED <<amis, instances, instance_ids, assessment_run_arn,
                   total_wait, awaitResult, next_token, finding_arns, created, pages,
                   runCalls, waitCalls, pollCount, slept, firstTerminal, emptyPoll,
                   fatalLogs, listCalls, publishCalls, terminateCalls, findVars,
                   onlyStaleDone>>

\* ------------------------------------------------------------------ poll loop
RunRecords == [createdAt : Days, state : RunStates]

\* line 202: the day handed to await_inspector_results
day == Today

\* line 78: the records of the response created on the given day
MatchingRuns_AnyDay(resp) == resp
MatchingRuns(resp) == SelectSeq(resp, LAMBDA x : day = x.createdAt)

\* line 80: "not runs" on the filter object of line 78, which Python 3 holds
\* true whatever it yields
NotRuns(runs) == FALSE

\* line 85
IsTerminal_CompletedOnly(state) == state = "COMPLETED"
IsTerminal(state) == state = "COMPLETED" \/ state = "COMPLETED_WITH_ERRORS"

\* line 94
BudgetExhausted_Strict(tw) == tw > max_total_wait
BudgetExhausted(tw) == tw >= max_total_wait

\* lines 201-204: the value returned by await_inspector_results is dropped
AfterAwait_AbortOnFailure(result) == IF result = "False" THEN "finally" ELSE "list"
AfterAwait(result) == "list"

\* the service's own view: the response carries a finished run of the given day
Finished(resp) ==
    SelectSeq(resp, LAMBDA x : x.createdAt = Today
                               /\ x.state \in {"COMPLETED", "COMPLETED_WITH_ERRORS"})

\* the service's own view: the response holds records, all of them of a run
\* that was created on another day and has finished
StaleDone(resp) ==
    /\ resp # <<>>
    /\ \A i \in 1..Len(resp) :
          /\ resp[i].createdAt # Today
          /\ resp[i].state \in {"COMPLETED", "COMPLETED_WITH_ERRORS"}

\* lines 76-91: one state query and the inspection of its answer
DescribeRuns ==
    /\ pc = "poll"
    /\ lastCall' = [kind |-> "describe_assessment_runs", ok |-> TRUE]
    /\ pollCount' = pollCount + 1
    /\ \E resp \in SeqsUpTo(RunRecords, MaxRuns) :
         LET runs == MatchingRuns(resp) IN
           /\ fatalLogs' = IF NotRuns(runs) THEN fatalLogs + 1 ELSE fatalLogs
           /\ emptyPoll' = (runs = <<>>)
           /\ onlyStaleDone' = (onlyStaleDone /\ StaleDone(resp))
           /\ firstTerminal' =
                IF firstTerminal.at = 0 /\ Finished(resp) # <<>>
                  THEN [at |-> pollCount + 1, state |-> Finished(resp)[1].state]
                  ELSE firstTerminal
           /\ IF \E i \in 1..Len(runs) : IsTerminal(runs[i].state)
                THEN /\ awaitResult' = "True"
                     /\ Goto(AfterAwait("True"))
                     /\ exc' = (AfterAwait("True") = "finally")
                ELSE /\ awaitResult' = awaitResult
                     /\ Goto("sleep")
                     /\ exc' = exc
    /\ UNCHANGED <<exitCode, amis, instances, instance_ids, assessment_run_arn,
                   total_wait, next_token, finding_arns, created, pages,
                   runCalls, waitCalls, startCalls, slept,
                   listCalls, publishCalls, terminateCalls, findVars>>

DescribeRunsRaises ==
    /\ pc = "poll"
    /\ lastCall' = [kind |-> "describe_assessment_runs", ok |-> FALSE]
    /\ pollCount' = pollCount + 1
    /\ RaiseInTry
    /\ UNCHANGED <<amis, instances, instance_ids, assessment_run_arn,
                   total_wait, awaitResult, next_token, finding_arns, created, pages,
                   runCalls, waitCalls, startCalls, slept, firstTerminal, emptyPoll,
                   fatalLogs, listCalls, publishCalls, terminateCalls, findVars,
                   onlyStaleDone>>

\* lines 92-96: sleep, charge the budget, give up when it is spent
Sleep ==
    /\ pc = "sleep"
    /\ slept' = slept + sleep_time
    /\ total_wait' = total_wait + sleep_time
    /\ IF BudgetExhausted(total_wait + sleep_time)
         THEN /\ awaitResult' = "False"
              /\ Goto(AfterAwait("False"))
              /\ exc' = (AfterAwait("False") = "finally")
         ELSE /\ awaitResult' = awaitResult
              /\ Goto("poll")
              /\ exc' = exc
    /\ emptyPoll' = FALSE
    /\ UNCHANGED <<exitCode, amis, instances, instance_ids, assessment_run_arn,
                   next_token, finding_arns, created, pages,
                   runCalls, waitCalls, startCalls, pollCount, firstTerminal,
                   fatalLogs, listCalls, publishCalls, terminateCalls, findVars,
                   lastCall, onlyStaleDone>>

\* ------------------------------------------------------------------ finding listing
\* lines 105-117: the request, with the token only when one is held
ListRequest(token) ==
    [assessmentRunArns |-> <<assessment_run_arn>>,
     maxResults |-> maxResults,
     filter |-> finding_filter,
     hasToken |-> TruthyToken(token),
     nextToken |-> IF TruthyToken(token) THEN token ELSE NoneToken]

\* line 119
Accumulate_KeepLastPage(acc, page) == page
Accumulate(acc, page) == acc \o page

\* the identifiers of all the pages delivered
Delivered(ps) == Flatten([i \in 1..Len(ps) |-> ps[i].findingArns])

\* The listing service: a request without token is answered with the first
\* page, a request with the token of page i with page i+1.  The content of a
\* page is decided when the page is first asked for, and kept.
PageIndex(req) == IF req.hasToken THEN req.nextToken + 1 ELSE 1

ListResponses(req, ps) ==
    IF PageIndex(req) <= Len(ps) THEN {ps[PageIndex(req)]}
    ELSE IF PageIndex(req) > Len(ps) + 1 THEN {}
    ELSE {[findingArns |-> [i \in 1..n |-> Len(Delivered(ps)) + i], nextToken |-> t] :
            n \in 0..Min(MaxPageLen, req.maxResults),
            t \in {NoneToken, EmptyToken}
                    \cup (IF PageIndex(req) < MaxPages THEN {PageIndex(req)} ELSE {})}

\* lines 104-121: one iteration of the loop of retrieve_finding_arns
ListFindings ==
    /\ pc = "list"
    /\ lastCall' = [kind |-> "list_findings", ok |-> TRUE]
    /\ LET req == ListRequest(next_token) IN
         /\ listCalls' = Append(listCalls, req)
         /\ \E resp \in ListResponses(req, pages) :
              /\ pages' = IF PageIndex(req) <= Len(pages)
                            THEN pages ELSE Append(pages, resp)
              /\ next_token' = resp.nextToken
              /\ finding_arns' = Accumulate(finding_arns, resp.findingArns)
              /\ IF ~TruthyToken(resp.nextToken) THEN Goto("alert")
                 ELSE UNCHANGED <<pc, visited>>
    /\ UNCHANGED <<exc, exitCode, amis, instances, instance_ids, assessment_run_arn,
                   total_wait, awaitResult, created,
                   runCalls, waitCalls, startCalls, pollCount, slept, firstTerminal,
                   emptyPoll, fatalLogs, publishCalls, terminateCalls, findVars,
                   onlyStaleDone>>

ListFindingsRaises ==
    /\ pc = "list"
    /\ lastCall' = [kind |-> "list_findings", ok |-> FALSE]
    /\ listCalls' = Append(listCalls, ListRequest(next_token))
    /\ RaiseInTry
    /\ UNCHANGED <<amis, instances, instance_ids, assessment_run_arn,
                   total_wait, awaitResult, next_token, finding_arns, created, pages,
                   runCalls, waitCalls, startCalls, pollCount, slept, firstTerminal,
                   emptyPoll, fatalLogs, publishCalls, terminateCalls, findVars,
                   onlyStaleDone>>

\* ------------------------------------------------------------------ alerting
\* line 217: the f-string, as its fragments
Message(arns, filter) ==
    [prefix |-> "Inspector scan resulted in ", amount |-> Len(arns),
     middle |-> " findings with filter ", filter |-> filter]

\* line 213
ShouldAlert_Always(arns) == TRUE
ShouldAlert(arns) == TruthyList(arns)

\* lines 213-218, the publish accepted
PublishFindings ==
    /\ pc = "alert"
    /\ lastCall' = [kind |-> "publish", ok |-> TRUE]
    /\ ShouldAlert(finding_arns)
    /\ publishCalls' = Append(publishCalls, Message(finding_arns, finding_filter))
    /\ Goto("finally")
    /\ UNCHANGED <<exc, exitCode, amis, instances, instance_ids, assessment_run_arn,
                   total_wait, awaitResult, next_token, finding_arns, created, pages,
                   runCalls, waitCalls, startCalls, pollCount, slept, firstTerminal,
                   emptyPoll, fatalLogs, listCalls, terminateCalls, findVars,
                   onlyStaleDone>>

PublishRaises ==
    /\ pc = "alert"
    /\ lastCall' = [kind |-> "publish", ok |-> FALSE]
    /\ ShouldAlert(finding_arns)
    /\ publishCalls' = Append(publishCalls, Message(finding_arns, finding_filter))
    /\ RaiseInTry
    /\ UNCHANGED <<amis, instances, instance_ids, assessment_run_arn,
                   total_wait, awaitResult, next_token, finding_arns, created, pages,
                   runCalls, waitCalls, startCalls, pollCount, slept, firstTerminal,
                   emptyPoll, fatalLogs, listCalls, terminateCalls, findVars,
                   onlyStaleDone>>

\* lines 219-221
NoFindings ==
    /\ pc = "alert"
    /\ ~ShouldAlert(finding_arns)
    /\ Goto("finally")
    /\ UNCHANGED <<exc, exitCode, amis, instances, instance_ids, assessment_run_arn,
                   total_wait, awaitResult, next_token, finding_arns, created, pages,
                   runCalls, waitCalls, startCalls, pollCount, slept, firstTerminal,
                   emptyPoll, fatalLogs, listCalls, publishCalls, terminateCalls,
                   findVars,
                   lastCall, onlyStaleDone>>

\* ------------------------------------------------------------------ teardown
\* line 226: the argument of terminate_ec2_instances
TeardownIds(ids) == ids

\* lines 223-226 and the end of the program: the pending exception, if any,
\* goes on after the finally block and ends the process with status 1
Teardown ==
    /\ pc = "finally"
    /\ lastCall' = [kind |-> "terminate_instances", ok |-> TRUE]
    /\ terminateCalls' = Append(terminateCalls, TeardownIds(instance_ids))
    /\ Goto("done")
    /\ exitCode' = IF exc THEN 1 ELSE 0
    /\ UNCHANGED <<exc, amis, instances, instance_ids, assessment_run_arn,
                   total_wait, awaitResult, next_token, finding_arns, created, pages,
                   runCalls, waitCalls, startCalls, pollCount, slept, firstTerminal,
                   emptyPoll, fatalLogs, listCalls, publishCalls, findVars,
                   onlyStaleDone>>

TeardownRaises ==
    /\ pc = "finally"
    /\ lastCall' = [kind |-> "terminate_instances", ok |-> FALSE]
    /\ terminateCalls' = Append(terminateCalls, TeardownIds(instance_ids))
    /\ Goto("done")
    /\ exc' = TRUE
    /\ exitCode' = 1
    /\ UNCHANGED <<amis, instances, instance_ids, assessment_run_arn,
                   total_wait, awaitResult, next_token, finding_arns, created, pages,
                   runCalls, waitCalls, startCalls, pollCount, slept, firstTerminal,
                   emptyPoll, fatalLogs, listCalls, publishCalls, findVars,
                   onlyStaleDone>>

Next ==
    \/ FetchAmis
    \/ FetchAmisRaises
    \/ LaunchInstance
    \/ LaunchRaises
    \/ LaunchReturn
    \/ WaitReady
    \/ WaitReadyRaises
    \/ StartScan
    \/ StartScanRaises
    \/ DescribeRuns
    \/ DescribeRunsRaises
    \/ Sleep
    \/ ListFindings
    \/ ListFindingsRaises
    \/ PublishFindings
    \/ PublishRaises
    \/ NoFindings
    \/ Teardown
    \/ TeardownRaises

Spec == Init /\ [][Next]_vars

\* The program is one sequential process that always takes its next step, and
\* every external call returns or raises.
SpecLive == Init /\ [][Next]_vars /\ WF_vars(Next)

\* ------------------------------------------------------------------ retrieve_findings
\* retrieve_findings is defined by the module and called by nothing in it:
\* it is run here on its own, on every list of up to MaxFindings identifiers.
InitFindings ==
    /\ InitCommon
    /\ pc = "not_run"
    /\ visited = {}
    /\ f_arns \in {Range1(n) : n \in 0..MaxFindings}
    /\ fpc = "loop"

\* line 128: the number of iterations
NumBatches_Floor(n) == n \div batch_size
NumBatches(n) == Ceil(n, batch_size)

\* lines 130-132
PaginationEnd_Overlapping(start, n) == start + batch_size + 1
PaginationEnd(start, n) ==
    IF start + batch_span > n THEN n - 1 ELSE start + batch_span

\* describe_findings answers with one record per identifier asked for
DescribeResponse(arns) == [findings |-> [i \in 1..Len(arns) |-> [arn |-> arns[i]]]]

\* lines 128-135: one iteration
DescribeBatch ==
    /\ fpc = "loop"
    /\ f_index < NumBatches(Len(f_arns))
    /\ LET pagination_start == f_index * batch_size
           pagination_end == PaginationEnd(pagination_start, Len(f_arns))
           window == Slice(f_arns, pagination_start, pagination_end)
       IN /\ describeCalls' = Append(describeCalls, window)
          /\ findings' = findings \o DescribeResponse(window).findings
    /\ f_index' = f_index + 1
    /\ UNCHANGED <<mainVars, f_arns, fpc>>

DescribeBatchRaises ==
    /\ fpc = "loop"
    /\ f_index < NumBatches(Len(f_arns))
    /\ LET pagination_start == f_index * batch_size
           pagination_end == PaginationEnd(pagination_start, Len(f_arns))
       IN describeCalls' = Append(describeCalls,
                                  Slice(f_arns, pagination_start, pagination_end))
    /\ fpc' = "raised"
    /\ UNCHANGED <<mainVars, f_arns, f_index, findings>>

\* line 136
FindingsReturn ==
    /\ fpc = "loop"
    /\ f_index >= NumBatches(Len(f_arns))
    /\ fpc' = "returned"
    /\ UNCHANGED <<mainVars, f_arns, f_index, findings, describeCalls>>

NextFindings ==
    \/ DescribeBatch
    \/ DescribeBatchRaises
    \/ FindingsReturn

SpecFindings == InitFindings /\ [][NextFindings]_vars

\* ==================================================================== claims
Provisioned == "wait" \in visited
PollLimit == max_total_wait \div sleep_time

\* C1: in every run in which provisioning returned the instance ids,
\* terminate_instances is called exactly once, with exactly those ids, whether
\* the phases inside the try return, time out or raise; it is never called
\* twice and never with anything else.
C1_TeardownExactlyOnce ==
    /\ Len(terminateCalls) <= 1
    /\ terminateCalls # <<>> => pc = "done" /\ Provisioned
    /\ (pc = "done" /\ Provisioned) => terminateCalls = <<instance_ids>>

C1_Witness ==
    /\ pc = "done"
    /\ awaitResult = "False"
    /\ exc
    /\ Len(instance_ids) = 2
    /\ terminateCalls = <<instance_ids>>

\* C2: when a launch is rejected after at least one earlier launch of the run
\* was accepted, the run ends with every instance created so far submitted
\* for termination.
C2_PartialLaunchTornDown ==
    (pc = "done" /\ Len(instances) >= 1 /\ Len(runCalls) = Len(instances) + 1)
        => (exc /\ terminateCalls = <<created>>)

\* C3: when discovery returns no image the run exits non-zero and makes no
\* launch, teardown, scan-start, finding-list or publish call.
C3_NoImagesNoCalls ==
    /\ amis = <<>> =>
          /\ pc \in {"fetch", "done"}
          /\ runCalls = <<>>
          /\ terminateCalls = <<>>
          /\ startCalls = 0
          /\ listCalls = <<>>
          /\ publishCalls = <<>>
    /\ (pc = "done" /\ amis = <<>>) => exitCode # 0 /\ exitCode # -1

C3_Witness ==
    /\ pc = "done"
    /\ amis = <<>>
    /\ ~exc
    /\ exitCode = 1

\* C4: await_inspector_results never issues more than 7260/60 = 121 state
\* queries; it returns False only after exactly 121 of them, none of which saw
\* a finished run, and whenever it returns without having seen one it returns
\* False.  No state query follows the return.
C4_TimeoutAfterPollLimit ==
    /\ pollCount <= PollLimit
    /\ awaitResult = "False" =>
          /\ pollCount = PollLimit
          /\ PollLimit = 121
          /\ firstTerminal.at = 0
          /\ pc = "list" => ~exc
    /\ (awaitResult # "none" /\ firstTerminal.at = 0) => awaitResult = "False"

C4_Witness ==
    /\ awaitResult = "False"
    /\ pollCount = 121
    /\ pc = "done"

\* C5: the first state query answered with a COMPLETED or
\* COMPLETED_WITH_ERRORS record of the given day, the k-th, makes
\* await_inspector_results return True, after exactly k queries; it returns
\* True in no other case.
C5_SuccessAtFirstTerminalPoll ==
    /\ firstTerminal.at > 0 => awaitResult = "True" /\ pollCount = firstTerminal.at
    /\ awaitResult = "True" => firstTerminal.at > 0

C5_Witness ==
    /\ awaitResult = "True"
    /\ pollCount = 120
    /\ pollCount * sleep_time < max_total_wait
    /\ firstTerminal.state = "COMPLETED_WITH_ERRORS"
    /\ pc = "done"

\* C6: when retrieve_finding_arns has returned, the listing was delivered in
\* p pages, exactly p list_findings requests were made, and the returned list
\* is the pages' identifiers in receipt order, none lost and none twice.
C6_AllPagesInOrder ==
    /\ Len(pages) <= Len(listCalls)
    /\ "alert" \in visited =>
          /\ Len(listCalls) = Len(pages)
          /\ \A i \in 1..Len(pages) :
                TruthyToken(pages[i].nextToken) <=> i < Len(pages)
          /\ finding_arns = Delivered(pages)
          /\ \A i, j \in 1..Len(finding_arns) :
                i # j => finding_arns[i] # finding_arns[j]

C6_Witness ==
    /\ pc = "alert"
    /\ Len(pages) = 3
    /\ Len(listCalls) = 3
    /\ finding_arns = <<1, 2, 3, 4, 5>>

\* C7: retrieve_findings makes exactly ceil(n / 100) describe_findings calls
\* for a list of n identifiers: the least c with 100 * c >= n.
C7_BatchCount ==
    /\ Len(describeCalls) * batch_size < Len(f_arns) + batch_size
    /\ fpc = "returned" => Len(describeCalls) * batch_size >= Len(f_arns)

C7_Witness ==
    /\ fpc = "returned"
    /\ Len(f_arns) = 250
    /\ Len(describeCalls) = 3

\* C8: once the alerting decision is taken, no publish call was made if the
\* list of finding identifiers is empty, and exactly one, whose message holds
\* the number of identifiers and the severity filter, if it is not.
C8_AlertIffFindings ==
    /\ Len(publishCalls) <= 1
    /\ publishCalls # <<>> => "alert" \in visited
    /\ ("alert" \in visited /\ pc # "alert") =>
          IF finding_arns = <<>>
            THEN publishCalls = <<>>
            ELSE /\ Len(publishCalls) = 1
                 /\ publishCalls[1].amount = Len(finding_arns)
                 /\ publishCalls[1].filter = [severities |-> <<"High">>]

C8_Witness ==
    /\ pc = "done"
    /\ ~exc
    /\ Len(finding_arns) = 3
    /\ Len(publishCalls) = 1
    /\ publishCalls[1].amount = 3

\* C9: when no launch fails, one launch request per discovered image was made,
\* in discovery order, each for exactly one instance, and the list returned is
\* the ids of the launch responses in that order, at most one per image.
C9_OneLaunchPerImage ==
    Provisioned =>
        /\ Len(runCalls) = Len(amis)
        /\ \A i \in 1..Len(amis) :
              /\ runCalls[i].ImageId = amis[i]
              /\ runCalls[i].MinCount = 1
              /\ runCalls[i].MaxCount = 1
        /\ instance_ids = created
        /\ Len(instance_ids) <= Len(amis)

C9_Witness ==
    /\ pc = "wait"
    /\ amis = <<"ami-2", "ami-1">>
    /\ instance_ids = <<1, 2>>

\* C10: when await_inspector_results returns False the run goes on: it lists
\* the findings of the same assessment run, takes the alerting decision unless
\* a later call raises, and tears down.
C10_TimeoutIsNotFatal ==
    awaitResult = "False" =>
        /\ pc \in {"list", "alert", "finally", "done"}
        /\ (pc = "list" /\ listCalls = <<>>) => ~exc
        /\ pc # "list" => listCalls # <<>>
        /\ \A i \in 1..Len(listCalls) :
              listCalls[i].assessmentRunArns = <<RunArn>>
        /\ (pc \in {"finally", "done"} /\ ~exc) => "alert" \in visited
        /\ pc = "done" => terminateCalls = <<instance_ids>>

C10_Witness ==
    /\ awaitResult = "False"
    /\ pc = "done"
    /\ ~exc
    /\ Len(publishCalls) = 1
    /\ terminateCalls = <<instance_ids>>

\* the external calls made so far, the discovery call apart
CallsMade ==
    Len(runCalls) + Len(waitCalls) + startCalls + pollCount
        + Len(listCalls) + Len(publishCalls) + Len(terminateCalls)

\* the call `kind` may come right after the call `prev`
MayFollow(prev, kind) ==
    CASE kind = "describe_instances" -> prev.kind = "none"
      [] kind = "run_instances" ->
            prev.ok /\ prev.kind \in {"describe_instances", "run_instances"}
      [] kind = "wait" -> prev.ok /\ prev.kind = "run_instances"
      [] kind = "start_assessment_run" -> prev.ok /\ prev.kind = "wait"
      [] kind = "describe_assessment_runs" ->
            prev.ok /\ prev.kind \in {"start_assessment_run", "describe_assessment_runs"}
      [] kind = "list_findings" ->
            prev.ok /\ prev.kind \in {"describe_assessment_runs", "list_findings"}
      [] kind = "publish" -> prev.ok /\ prev.kind = "list_findings"
      [] kind = "terminate_instances" ->
            prev.kind \in {"wait", "start_assessment_run", "describe_assessment_runs",
                           "list_findings", "publish"}
      [] OTHER -> FALSE

\* C11: the external calls come in the order discovery, launches, readiness
\* wait, scan start, state polls, finding-list pages, optional publish,
\* teardown; a call of a later phase is made only when the call before it
\* returned without raising, only teardown follows a call that raised, and no
\* call follows teardown.
C11_CallOrder ==
    [][(CallsMade' # CallsMade \/ lastCall' # lastCall) =>
          /\ MayFollow(lastCall, lastCall'.kind)
          /\ CallsMade' = CallsMade + (IF lastCall'.kind = "describe_instances" THEN 0 ELSE 1)
          /\ lastCall.kind = "list_findings" /\ lastCall'.kind \in {"publish", "terminate_instances"}
                => ~lastCall.ok \/ ~TruthyToken(next_token)]_vars

C11_Witness ==
    /\ pc = "done"
    /\ lastCall = [kind |-> "terminate_instances", ok |-> TRUE]
    /\ Len(runCalls) = 2
    /\ pollCount = 2
    /\ Len(listCalls) = 2
    /\ Len(publishCalls) = 1
    /\ ~exc

\* C12: the exit code is non-zero when no image is discovered, zero when the
\* run completes normally, and, when an exception of an API call ends the run,
\* non-zero and different from the no-images code.
C12_ExitCodes ==
    pc = "done" =>
        /\ (~exc /\ amis = <<>>) => exitCode = NoImagesExitCode /\ exitCode # 0
        /\ (~exc /\ amis # <<>>) => exitCode = 0
        /\ exc => exitCode # 0 /\ exitCode # NoImagesExitCode

\* C13: a state query that finds no record of the given day is logged as
\* "No assessment runs found!" and polling goes on with the sleep.
C13_AnomalyLogged ==
    emptyPoll => (fatalLogs > 0 /\ pc = "sleep")

\* C14: await_inspector_results returns True only on the poll answered with a
\* finished record of the given day; finished records of another day never end
\* the polling, so when every answer holds only such records the function
\* returns False, after the full budget.
C14_OnlyMatchingDayEndsPolling ==
    /\ awaitResult = "True" => firstTerminal.at = pollCount
    /\ (onlyStaleDone /\ pollCount > 0) =>
          /\ awaitResult # "True"
          /\ firstTerminal.at = 0
          /\ awaitResult = "False" => pollCount = PollLimit /\ slept = max_total_wait
          /\ awaitResult = "none" => pc \in {"poll", "sleep"} \/ exc

C14_Witness ==
    /\ onlyStaleDone
    /\ awaitResult = "False"
    /\ pollCount = 121
    /\ pc = "done"

\* the identifiers handed to describe_findings, over all the calls
Submitted == Flatten(describeCalls)

\* the input identifiers handed to no call
Omitted == {i \in 1..Len(f_arns) : ~InSeq(f_arns[i], Submitted)}

\* the place of an identifier in the input list
Pos(x) == CHOOSE i \in 1..Len(f_arns) : f_arns[i] = x

\* C15: over all the batches of retrieve_findings, every input identifier but
\* at most one is handed to describe_findings, and every batch but the last
\* hands over its full window of 100.
C15_AtMostOneDropped ==
    fpc = "returned" =>
        /\ Cardinality(Omitted) <= 1
        /\ \A b \in 1..(Len(describeCalls) - 1) :
              describeCalls[b] = SubSeq(f_arns, (b - 1) * batch_size + 1, b * batch_size)

\* C16: every describe_findings call carries at most 100 identifiers, a
\* contiguous window of the input; the windows of successive calls go up the
\* list and do not overlap; the list returned is the results of the batches,
\* in batch order.
C16_DisjointOrderedWindows ==
    /\ \A b \in 1..Len(describeCalls) :
          /\ Len(describeCalls[b]) <= batch_size
          /\ \E lo \in 1..(Len(f_arns) + 1) :
                describeCalls[b] = SubSeq(f_arns, lo, lo + Len(describeCalls[b]) - 1)
    /\ \A b1, b2 \in 1..Len(describeCalls) :
          (b1 < b2 /\ describeCalls[b1] # <<>> /\ describeCalls[b2] # <<>>) =>
              Pos(describeCalls[b1][Len(describeCalls[b1])]) < Pos(describeCalls[b2][1])
    /\ fpc # "raised" =>
          findings = Flatten([b \in 1..Len(describeCalls) |->
                                DescribeResponse(describeCalls[b]).findings])

C16_Witness ==
    /\ fpc = "returned"
    /\ Len(f_arns) = 250
    /\ Len(describeCalls) = 3
    /\ describeCalls[2][1] = 101
    /\ Len(findings) = Len(Submitted)

\* C19: for a list of at least one identifier, no describe_findings call is
\* made with an empty list of identifiers.
C19_NoEmptyBatch ==
    \A b \in 1..Len(describeCalls) : describeCalls[b] # <<>>

\* C17: the first list_findings request carries no token, each later one the
\* token of the response just before it; all requests name the same
\* assessment run, the same filter and 500 as page size; the first response
\* whose token is absent or empty is the last one asked for.
C17_TokenChaining ==
    /\ Len(pages) <= Len(listCalls)
    /\ Len(listCalls) <= Len(pages) + 1
    /\ \A i \in 1..Len(listCalls) :
          /\ listCalls[i].hasToken <=> i > 1
          /\ i > 1 => /\ TruthyToken(pages[i - 1].nextToken)
                      /\ listCalls[i].nextToken = pages[i - 1].nextToken
          /\ listCalls[i].assessmentRunArns = <<RunArn>>
          /\ listCalls[i].filter = [severities |-> <<"High">>]
          /\ listCalls[i].maxResults = 500
    /\ \A i \in 1..Len(pages) :
          pages[i].nextToken \in {NoneToken, EmptyToken} =>
              /\ Len(listCalls) = i
              /\ pc \in {"alert", "finally", "done"}

C17_Witness ==
    /\ pc = "alert"
    /\ Len(listCalls) = 3
    /\ listCalls[3].nextToken = pages[2].nextToken
    /\ pages[3].nextToken = EmptyToken

\* C18: in the poll loop total_wait is a multiple of 60 between 0 and 7260 and
\* at most total_wait/60 + 1 state queries were made; each query that saw no
\* finished run is followed by one sleep of 60 before the next query or the
\* return of False, which therefore comes only when 7260 were slept.
C18_PollLoopInvariant ==
    /\ total_wait % sleep_time = 0
    /\ 0 <= total_wait /\ total_wait <= max_total_wait
    /\ slept = total_wait
    /\ pollCount <= total_wait \div sleep_time + 1
    /\ pc = "poll" => pollCount = total_wait \div sleep_time
    /\ pc = "sleep" => pollCount = total_wait \div sleep_time + 1
    /\ awaitResult = "False" => slept = 7260 /\ pollCount = slept \div 60

C18_Witness ==
    /\ awaitResult = "False"
    /\ total_wait = 7260
    /\ slept = 7260
    /\ pollCount = 121
    /\ pc = "list"

\* C20: when every external call returns or raises and the listing ends with
\* a page without token, a run that completed provisioning eventually makes
\* the teardown call and ends; the poll loop is always left; the pagination
\* loop is left without an exception only on a page without token, and goes
\* on after every page that carries one.
C20_Termination ==
    /\ Provisioned ~> (pc = "done" /\ Len(terminateCalls) = 1)
    /\ (pc \in {"poll", "sleep"}) ~> (pc \notin {"poll", "sleep"})
    /\ [][(pc = "list" /\ ~exc') =>
            (pc' = "list" <=> next_token' \notin {NoneToken, EmptyToken})]_vars

C20_Witness ==
    /\ pc = "done"
    /\ Provisioned
    /\ Len(terminateCalls) = 1
    /\ pollCount = 121
    /\ Len(listCalls) = 3
    /\ ~exc

====
